---- MODULE Spec2Model ----
(***************************************************************************)
(* A model of sercand/kuberesolver.                                        *)
(*                                                                         *)
(* The repository holds two generations of the resolver:                   *)
(*                                                                         *)
(*  - the naming.Watcher generation: a JSON stream watcher (stream.go),    *)
(*    the retry loop Until (util), kubeResolver.Resolve / resolveWrapper   *)
(*    (resolver.go) and Watcher.Next (watcher), which turns every event    *)
(*    into Add/Delete updates against the materialized map w.endpoints.    *)
(*    Resolve hands the Watcher the channel `result` on which              *)
(*    resolveWrapper forwards every event of the stream watcher.           *)
(*    Specifications: Spec (the whole pipeline), SpecNext (Watcher.Next    *)
(*    alone, driven by arbitrary events).                                  *)
(*                                                                         *)
(*  - the resolver.Builder generation: kubeBuilder.Build / kResolver       *)
(*    (balancer.go), driven by informer callbacks.  Specification: SpecK.  *)
(*                                                                         *)
(* Strings that the code builds or compares (ports, addresses) are         *)
(* sequences of one-character strings, so that strconv.Itoa,               *)
(* strconv.Atoi and net.JoinHostPort are computed, not assumed.            *)
(***************************************************************************)
EXTENDS Integers, Sequences, FiniteSets, TLC

\* ------------------------------------------------------------------ bounds

\* Longest snapshot (number of subsets of one Endpoints object) the
\* differencer specification SpecNext enumerates.
MaxSubsets == 2

\* Most subscriptions (stream watchers) one run of the pipeline opens.
MaxWatches == 2

\* Most events the stream watchers of one run decode, all together.
MaxEvents == 3

\* The calls of ResolveNow in a run.
MaxResolveNows == 1

\* ------------------------------------------------------------------ strings

Range(s) == {s[i] : i \in 1..Len(s)}

Digits == <<"0", "1", "2", "3", "4", "5", "6", "7", "8", "9">>

\* strconv.Itoa for a non-negative port number.
RECURSIVE Itoa(_)
Itoa(n) ==
    IF n < 10 THEN <<Digits[n + 1]>>
    ELSE Itoa(n \div 10) \o <<Digits[(n % 10) + 1]>>

\* strconv.Atoi succeeds: an optional sign followed by at least one digit,
\* all of them digits.
IsNumeric(s) ==
    LET body == IF Len(s) > 0 /\ s[1] \in {"+", "-"} THEN Tail(s) ELSE s
    IN  /\ Len(body) > 0
        /\ \A i \in 1..Len(body) : body[i] \in Range(Digits)

\* net.JoinHostPort: host:port, the host in brackets when it holds a colon
\* or a percent sign.
JoinHostPort(host, port) ==
    IF ":" \in Range(host) \/ "%" \in Range(host)
    THEN <<"[">> \o host \o <<"]", ":">> \o port
    ELSE host \o <<":">> \o port

\* Every enumeration of a finite set without repetition: the orders in
\* which Go may range over a map with these keys.
RECURSIVE Orders(_)
Orders(S) ==
    IF S = {} THEN {<<>>}
    ELSE UNION {{<<x>> \o t : t \in Orders(S \ {x})} : x \in S}

\* ------------------------------------------------------------------ data

Added == "ADDED"
Modified == "MODIFIED"
Deleted == "DELETED"
Error == "ERROR"
EventType == {Added, Modified, Deleted, Error}

IP1 == <<"1", ".", "1">>
IP2 == <<"2", ".", "2">>
IP3 == <<"3", ".", "3">>

NameHttp == <<"h", "t", "t", "p">>
NameDns == <<"d", "n", "s">>

PortHttp == [Name |-> NameHttp, Port |-> 80]
PortDns == [Name |-> NameDns, Port |-> 53]

\* An EndpointSubset: ready addresses, not-ready addresses, ports.
Subset(addresses, notReady, ports) ==
    [Addresses |-> addresses, NotReadyAddresses |-> notReady, Ports |-> ports]

\* The subsets snapshots are built from: two ports with a not-ready
\* address, one port, no port at all, an IP shared between subsets.
SubsetPool ==
    { Subset(<<IP1, IP2>>, <<IP3>>, <<PortHttp, PortDns>>),
      Subset(<<IP1>>, <<>>, <<PortDns>>),
      Subset(<<IP2>>, <<>>, <<PortHttp>>),
      Subset(<<IP2>>, <<>>, <<>>) }

RECURSIVE SeqsUpTo(_, _)
SeqsUpTo(S, n) ==
    IF n = 0 THEN {<<>>}
    ELSE LET shorter == SeqsUpTo(S, n - 1)
         IN  shorter \cup {Append(q, x) : q \in {r \in shorter : Len(r) = n - 1}, x \in S}

\* An Endpoints object: its subsets.
Objects == {[Subsets |-> q] : q \in SeqsUpTo(SubsetPool, MaxSubsets)}

\* The zero value of Event.Object.
EmptyObject == [Subsets |-> <<>>]

Event(type, object) == [Type |-> type, Object |-> object]

\* What a watch can deliver: ADDED, MODIFIED and DELETED carry the object
\* (DELETED its last state), ERROR carries a status, which decodes to an
\* object without subsets.
Events ==
    {Event(t, o) : t \in {Added, Modified, Deleted}, o \in Objects}
        \cup {Event(Error, EmptyObject)}

\* ------------------------------------------------------------------ targets

Host == <<"s", "v", "c">>

\* strings.Split(u.Host, ":") for the targets of the model: the host alone,
\* or the host and a port that is a number, a name, or empty.
HostSplits ==
    { <<Host>>, <<Host, <<"5", "3">>>>, <<Host, NameDns>>,
      <<Host, <<"8", "0", "8", "0">>>>, <<Host, <<>>>> }

targetInfo(port, resolveByPortName, useFirstPort) ==
    [port |-> port, resolveByPortName |-> resolveByPortName, useFirstPort |-> useFirstPort]

\* parseTarget, kubernetes scheme: host:port gives the port, and
\* resolveByPortName exactly when Atoi fails on it; anything else gives
\* useFirstPort.
parseTarget(spl) ==
    IF Len(spl) = 2
    THEN targetInfo(spl[2], ~IsNumeric(spl[2]), FALSE)
    ELSE targetInfo(<<>>, FALSE, TRUE)

Targets == {parseTarget(spl) : spl \in HostSplits}

\* ------------------------------------------------------------------ state

VARIABLES
    \* Watcher
    target,        \* w.target
    endpoints,     \* w.endpoints: the keys of the materialized map
    updates,       \* what the last call of Next returned
    \* history, for stating the claims
    lastObj,       \* <<o>>: the object of the event Next applied last; <<>> before
    sameAsPrev,    \* the event applied last carried the same object as the one before
    wClosePc,      \* the caller of Watcher.Close (the generation with w.done):
                   \* "idle", "sending" (on w.done), "stopping", "returned"
    \* Resolve: the retry goroutine and resolveWrapper
    stopCh,        \* stopCh is closed
    untilPc,       \* where the goroutine running Until is
    wrapPc,        \* where resolveWrapper is, while Until runs it
    wrapUp,        \* <<up>>: the event resolveWrapper holds to forward; else <<>>
    \* the stream watchers opened so far, oldest first
    sws,
    \* history, for stating the claims
    decodedCount,  \* events decoded so far; the n-th decoded event has id n
    applied,       \* ids of the events Next applied, in the order it applied them
    \* kResolver
    kTarget,       \* k.target
    ctxDone,       \* k.cancel() was called: k.ctx.Done() is closed
    wg,            \* k.wg: the WaitGroup's counter
    bg,            \* the goroutine Build starts: "running", "exited"
    closePc,       \* the caller of Close: "idle", "waiting" (in wg.Wait), "returned"
    kExists,       \* the informer's cache holds the Endpoints object
    kHandler,      \* where handleEndpointsUpdate is: "idle", "publish", "gauges"
    kArg,          \* its argument e: <<object>>, or <<>> for nil
    kAddrs,        \* its local addrs
    ccAddrs,       \* <<list>>: the list cc.NewAddress received last; <<>> before
    gaugeEndpoints,  \* k.endpoints
    gaugeAddresses,  \* k.addresses
    crashed,       \* a panic has left the handler
    \* history, for stating the claims
    kResolved,     \* the addresses of the snapshot handled before the current one
    kLast,         \* <<r>>: what the handler did for the event handled last
    \* kubeBuilder.Build
    asked,         \* history: the service, namespace, port and form the caller means
    dial,          \* the resolver.Target given to Build: its URL's Host and Path
    nsFile,        \* the namespace file: <<content>>, or <<>> when it cannot be read
    buildRet,      \* what Build returned: "none" (not called), "error", "resolver"
    resolveNows,   \* history: the calls of ResolveNow so far
    \* Balancer
    resolvers,     \* b.resolvers
    dialPc,        \* <<rs>>: Dial is in the assignment of b.resolvers; else <<>>
    hPc,           \* the caller of Healthy: "idle", "range", "loop", "reading"
    hLen,          \* the length of the slice Healthy ranges over
    hIdx,          \* the index of the resolver Healthy is at
    hRet           \* what Healthy did last: "none", "nil", "error", "panic"

wvars == <<target, endpoints, updates, lastObj, sameAsPrev, wClosePc>>
pvars == <<stopCh, untilPc, wrapPc, wrapUp, sws, decodedCount, applied>>
kvars == <<kTarget, ctxDone, wg, bg, closePc, kExists, kHandler, kArg, kAddrs,
           ccAddrs, gaugeEndpoints, gaugeAddresses, crashed, kResolved, kLast>>
bvars == <<asked, dial, nsFile, buildRet, resolveNows>>
hvars == <<resolvers, dialPc, hPc, hLen, hIdx, hRet>>
vars == <<wvars, pvars, kvars, bvars, hvars>>

\* ------------------------------------------------------------------ Watcher.Next

Add == "Add"
Delete == "Delete"

Update(op, addr) == [Op |-> op, Addr |-> addr, Metadata |-> "nil"]

\* The port Next uses for one subset; <<>> when the subset is skipped.
\* useFirstPort takes the first port; resolveByPortName the first port with
\* the target's name; otherwise the target's port verbatim.  An empty
\* result falls back to the first port, and the subset is skipped only
\* when it lists no port.
NextPort(subset, ti) ==
    LET ports == subset.Ports
        named == {i \in 1..Len(ports) : ports[i].Name = ti.port}
        first == IF ti.useFirstPort
                 THEN IF Len(ports) > 0 THEN Itoa(ports[1].Port) ELSE <<>>
                 ELSE IF ti.resolveByPortName
                 THEN IF named # {}
                      THEN Itoa(ports[CHOOSE i \in named : \A j \in named : i <= j].Port)
                      ELSE <<>>
                 ELSE ti.port
    IN  IF Len(first) = 0
        THEN IF Len(ports) > 0 THEN Itoa(ports[1].Port) ELSE <<>>
        ELSE first

\* updatedEndpoints: the keys Next computes from the event's object.
UpdatedEndpoints(ep, ti) ==
    UNION { LET subset == ep.Object.Subsets[i]
                port == NextPort(subset, ti)
            IN  IF Len(port) = 0 THEN {}
                ELSE {JoinHostPort(subset.Addresses[a], port) :
                          a \in 1..Len(subset.Addresses)}
          : i \in 1..Len(ep.Object.Subsets) }

\* Next without the assignment w.endpoints = updatedEndpoints.
NextEndpoints_NotStored(old, ep, ti) == old

\* Next adding the new keys to the map instead of replacing the map.
NextEndpoints_Merged(old, ep, ti) == old \cup UpdatedEndpoints(ep, ti)

\* The keys w.endpoints holds after Next has applied ep.
NextEndpoints(old, ep, ti) == UpdatedEndpoints(ep, ti)

\* Next without the loop that creates the Delete updates.
NextUpdates_NoDeletes(old, ep, ti) ==
    LET new == UpdatedEndpoints(ep, ti)
    IN  { [i \in 1..Len(a) |-> Update(Add, a[i])] : a \in Orders(new \ old) }

\* The update lists Next may return for ep: an Add for every new key not in
\* w.endpoints, then a Delete for every key of w.endpoints that is not new,
\* each group in the order the map happens to be ranged over.
NextUpdates(old, ep, ti) ==
    LET new == UpdatedEndpoints(ep, ti)
    IN  { [i \in 1..(Len(a) + Len(d)) |->
              IF i <= Len(a) THEN Update(Add, a[i]) ELSE Update(Delete, d[i - Len(a)])]
          : a \in Orders(new \ old), d \in Orders(old \ new) }

\* Next, once it has received the event ep.
ApplyEvent(ep) ==
    /\ \E u \in NextUpdates(endpoints, ep, target) : updates' = u
    /\ endpoints' = NextEndpoints(endpoints, ep, target)
    /\ lastObj' = <<ep.Object>>
    /\ sameAsPrev' = (lastObj = <<ep.Object>>)
    /\ UNCHANGED <<target, wClosePc>>

\* No kResolver has been built.
NoResolver ==
    /\ kTarget = targetInfo(<<>>, FALSE, FALSE)
    /\ ctxDone = FALSE
    /\ wg = 0
    /\ bg = "exited"
    /\ closePc = "idle"
    /\ kExists = FALSE
    /\ kHandler = "idle"
    /\ kArg = <<>>
    /\ kAddrs = <<>>
    /\ ccAddrs = <<>>
    /\ gaugeEndpoints = 0
    /\ gaugeAddresses = 0
    /\ crashed = FALSE
    /\ kResolved = {}
    /\ kLast = <<>>

\* Build has not been called, and is not going to be.
NoBuilder ==
    /\ asked = <<>>
    /\ dial = <<>>
    /\ nsFile = <<>>
    /\ buildRet = "none"
    /\ resolveNows = 0

\* No Balancer: nothing is dialed and Healthy is not called.
NoBalancer ==
    /\ resolvers = <<>>
    /\ dialPc = <<>>
    /\ hPc = "idle"
    /\ hLen = 0
    /\ hIdx = 0
    /\ hRet = "none"

\* ------------------------------------------------------------------ SpecNext
\* Watcher.Next alone: a new Watcher of any target, fed any events.

InitWatcher ==
    /\ endpoints = {}
    /\ updates = <<>>
    /\ lastObj = <<>>
    /\ sameAsPrev = FALSE
    /\ wClosePc = "idle"

\* Resolve has returned: the Watcher exists, the goroutine running Until
\* is about to start, nothing is subscribed.
InitPipeline ==
    /\ stopCh = FALSE
    /\ untilPc = "check"
    /\ wrapPc = "idle"
    /\ wrapUp = <<>>
    /\ sws = <<>>
    /\ decodedCount = 0
    /\ applied = <<>>

NextOnEvent == \E ep \in Events : ApplyEvent(ep) /\ UNCHANGED <<pvars, kvars, bvars, hvars>>

InitNext ==
    target \in Targets /\ InitWatcher /\ InitPipeline /\ NoResolver /\ NoBuilder /\ NoBalancer

StepNext == NextOnEvent

SpecNext == InitNext /\ [][StepNext]_vars

\* C9: when Next applies an event that carries the same object as the event
\* it applied just before, it returns no update: nothing added, nothing
\* removed.
C9_SecondApplicationIsEmpty == sameAsPrev => updates = <<>>

\* The same object with addresses was applied twice in a row.
C9_Witness == sameAsPrev /\ endpoints # {}

\* The materialized set a new Watcher holds after one event carrying obj.
ColdResolve(obj, ti) == NextEndpoints({}, Event(Added, obj), ti)

\* C10: after any sequence of events the materialized set is the one a new
\* Watcher gets from the last event's object alone.
C10_ConvergesToLastSnapshot ==
    lastObj # <<>> => endpoints = ColdResolve(lastObj[1], target)

\* An event replaced an earlier, different set of addresses: some earlier
\* address was removed and some address is held now.
C10_Witness ==
    /\ lastObj # <<>>
    /\ endpoints # {}
    /\ \E i \in 1..Len(updates) : updates[i].Op = Delete

\* The addresses a list of updates adds, and those it deletes.
AddsOf(u) == {u[i].Addr : i \in 1..Len(u) \cap {j \in 1..Len(u) : u[j].Op = Add}}
DeletesOf(u) == {u[i].Addr : i \in 1..Len(u) \cap {j \in 1..Len(u) : u[j].Op = Delete}}

\* C11: every call of Next returns an Add for exactly the addresses of the
\* new snapshot that the stored set did not hold and a Delete for exactly
\* the addresses of the stored set that the new snapshot does not hold, each
\* once and none in both, and the stored set becomes the new snapshot's set.
C11_UpdatesAreTheDifference ==
    [][ /\ AddsOf(updates') = endpoints' \ endpoints
        /\ DeletesOf(updates') = endpoints \ endpoints'
        /\ AddsOf(updates') \cap DeletesOf(updates') = {}
        /\ Len(updates') = Cardinality(endpoints' \ endpoints)
                              + Cardinality(endpoints \ endpoints')
        /\ endpoints' = UpdatedEndpoints(Event(Added, lastObj'[1]), target) ]_vars

\* A call of Next added an address, deleted another and kept a third.
C11_Witness ==
    /\ AddsOf(updates) # {}
    /\ DeletesOf(updates) # {}
    /\ endpoints \ AddsOf(updates) # {}

\* C12: for a target that resolves by a (non-empty) port name, every address of the
\* stored set comes from a group that has a port of that name and carries
\* that port's number: a group without a port of that name yields nothing.
C12_NameMissSkipsGroup ==
    (lastObj # <<>> /\ target.resolveByPortName /\ target.port # <<>>) =>
        \A a \in endpoints :
            \E i \in 1..Len(lastObj[1].Subsets) :
                LET subset == lastObj[1].Subsets[i]
                IN  \E p \in 1..Len(subset.Ports), ip \in 1..Len(subset.Addresses) :
                        /\ subset.Ports[p].Name = target.port
                        /\ a = JoinHostPort(subset.Addresses[ip],
                                            Itoa(subset.Ports[p].Port))

\* ------------------------------------------------------------------ streamWatcher

\* The events a stream of the pipeline specification delivers.
ObjA == [Subsets |-> <<Subset(<<IP1, IP2>>, <<IP3>>, <<PortHttp, PortDns>>)>>]
ObjB == [Subsets |-> <<Subset(<<IP1>>, <<>>, <<PortDns>>)>>]

StreamEvents ==
    { Event(Added, ObjA), Event(Modified, ObjB), Event(Deleted, ObjB),
      Event(Error, EmptyObject) }

\* The errors Decode returns: the stream ended between two events, ended
\* inside an event, held something that is no event, or was closed under
\* the reader by Stop.
NoError == "nil"
EOF == "EOF"
ErrUnexpectedEOF == "unexpected EOF"
ErrSyntax == "invalid character"
ErrClosed == "read on closed body"
ErrInvalidType == "got invalid watch event type"

\* What the stream may carry: the events of the model, and an event of a
\* type that is none of the four.
WireEvents == StreamEvents \cup {Event("BOOKMARK", ObjB)}

\* Decode returning whatever the stream carried.
Decode_NoTypeCheck(got) == [ev |-> got, err |-> NoError]

\* JSONDecoder.Decode, given the event json decoded: an event of another
\* type than the four is an error.
Decode(got) ==
    IF got.Type \in EventType
    THEN [ev |-> got, err |-> NoError]
    ELSE [ev |-> Event("", EmptyObject), err |-> ErrInvalidType]

\* http.StatusOK, and another status a server answers with.
StatusOK == 200
StatusCodes == {StatusOK, 500}

\* The response to a watch request: its status and, for stating the claims,
\* the resourceVersion parameter of the query of its request (<<>> when the
\* query has none).
Response(StatusCode, resourceVersion) ==
    [StatusCode |-> StatusCode, resourceVersion |-> resourceVersion]

\* newStreamWatcher over the body of resp: the source open, the result
\* channel open, the receive goroutine about to call Decode; err is the
\* local of receive.  For stating the claims, afterStop records whether
\* stopCh was already closed when the watcher was created, taken counts the
\* events received from its result channel and resp is the response whose
\* body it reads.
newStreamWatcher(afterStop, resp) ==
    [ pc |-> "decode", stopped |-> FALSE, sourceCloses |-> 0,
      resultClosed |-> FALSE, obj |-> <<>>, err |-> NoError,
      afterStop |-> afterStop, taken |-> 0, resp |-> resp ]

\* What the body of resp carries: watch events when the status is 200;
\* otherwise the server's Status object, which json decodes into an Event
\* without type and without subsets.
Body(resp) ==
    IF resp.StatusCode = StatusOK THEN WireEvents ELSE {Event("", EmptyObject)}

\* receive closing the result channel in both of its defers.
receiveDefers_CloseTwice == <<"close", "close">>

\* receive with its two defers registered in the other order.
receiveDefers_CloseFirst == <<"close", "stop">>

\* The deferred calls of receive in the order they run: defer close(result)
\* is registered first and defer sw.Stop() second, so Stop runs first.
receiveDefers == <<"stop", "close">>

\* receive: the stream carries an event and Decode returns; receive goes on
\* to send the event, or returns on the error.
ReceiveDecode(i) ==
    /\ sws[i].pc = "decode"
    /\ sws[i].sourceCloses = 0
    /\ decodedCount < MaxEvents
    /\ \E got \in Body(sws[i].resp) :
          LET d == Decode(got)
          IN  IF d.err = NoError
              THEN /\ sws' = [sws EXCEPT ![i].pc = "send",
                                         ![i].obj = <<[id |-> decodedCount + 1, ev |-> d.ev]>>]
                   /\ decodedCount' = decodedCount + 1
              ELSE /\ sws' = [sws EXCEPT ![i].pc = "defer1", ![i].err = d.err]
                   /\ UNCHANGED decodedCount
    /\ UNCHANGED <<kvars, bvars, hvars, wvars, stopCh, untilPc, wrapPc, wrapUp, applied>>

\* receive going on with its loop after an error of Decode.
ReceiveDecodeError_Continues(i) ==
    /\ sws[i].pc = "decode"
    /\ \E e \in (IF sws[i].stopped THEN {ErrClosed}
                  ELSE {EOF, ErrUnexpectedEOF, ErrSyntax}) :
          sws' = [sws EXCEPT ![i].err = e]
    /\ UNCHANGED <<kvars, bvars, hvars, wvars, stopCh, untilPc, wrapPc, wrapUp, decodedCount, applied>>

\* receive: Decode returns an error (end of stream, truncated stream, bad
\* event, closed source); whether stopping or not, and whatever the error,
\* receive logs at most, returns, and its defers run.
ReceiveDecodeError(i) ==
    /\ sws[i].pc = "decode"
    /\ \E e \in (IF sws[i].stopped THEN {ErrClosed}
                  ELSE {EOF, ErrUnexpectedEOF, ErrSyntax}) :
          sws' = [sws EXCEPT ![i].pc = "defer1", ![i].err = e]
    /\ UNCHANGED <<kvars, bvars, hvars, wvars, stopCh, untilPc, wrapPc, wrapUp, decodedCount, applied>>

\* Stop without the stopped flag: every call closes the source.
Stop_NoFlag(sw) == [sw EXCEPT !.stopped = TRUE, !.sourceCloses = @ + 1]

\* Stop: closes the source unless the watcher is stopped already.
Stop(sw) ==
    IF ~sw.stopped
    THEN [sw EXCEPT !.stopped = TRUE, !.sourceCloses = @ + 1]
    ELSE sw

\* One deferred call of receive: sw.Stop() or close(sw.result).
ReceiveDeferred(i) ==
    /\ sws[i].pc \in {"defer1", "defer2"}
    /\ LET k == IF sws[i].pc = "defer1" THEN 1 ELSE 2
           after == IF k = 1 THEN "defer2" ELSE "exited"
           sw == IF receiveDefers[k] = "stop"
                 THEN Stop(sws[i])
                 ELSE [sws[i] EXCEPT !.resultClosed = TRUE]
       IN  sws' = [sws EXCEPT ![i] = [sw EXCEPT !.pc = after,
                                                !.err = NoError]]
    /\ UNCHANGED <<kvars, bvars, hvars, wvars, stopCh, untilPc, wrapPc, wrapUp, decodedCount, applied>>

\* ------------------------------------------------------------------ Until, resolveWrapper

\* The stream watcher resolveWrapper reads from: the one it created.
Current == Len(sws)

\* Until with a loop that calls f before it looks at stopCh.
UntilCheck_CallsFirst ==
    /\ untilPc = "check"
    /\ untilPc' = "call"
    /\ UNCHANGED <<kvars, bvars, hvars, wvars, stopCh, wrapPc, wrapUp, sws, decodedCount, applied>>

\* Until, before the loop: returns if stopCh is closed, else calls f.
UntilCheck ==
    /\ untilPc = "check"
    /\ untilPc' = IF stopCh THEN "done" ELSE "call"
    /\ UNCHANGED <<kvars, bvars, hvars, wvars, stopCh, wrapPc, wrapUp, sws, decodedCount, applied>>

\* resolveWrapper up to its loop, the request failing: it returns the error
\* and Until goes to wait.
ResolveWrapperFails ==
    /\ untilPc = "call"
    /\ untilPc' = "wait"
    /\ UNCHANGED <<kvars, bvars, hvars, wvars, stopCh, wrapPc, wrapUp, sws, decodedCount, applied>>

\* resolveWrapper up to its loop, the request answered: the query of the
\* request has no resourceVersion, a status other than 200 is logged, and
\* whatever the status the body is wrapped in a new stream watcher and
\* resolveWrapper enters its loop.
ResolveWrapperSubscribes ==
    /\ untilPc = "call"
    /\ Len(sws) < MaxWatches
    /\ \E code \in StatusCodes :
          sws' = Append(sws, newStreamWatcher(stopCh, Response(code, <<>>)))
    /\ untilPc' = "running"
    /\ wrapPc' = "select"
    /\ UNCHANGED <<kvars, bvars, hvars, wvars, stopCh, wrapUp, decodedCount, applied>>

\* resolveWrapper, select: stopCh is closed; it returns.
ResolveWrapperStopped ==
    /\ wrapPc = "select"
    /\ stopCh
    /\ wrapPc' = "idle"
    /\ untilPc' = "wait"
    /\ UNCHANGED <<kvars, bvars, hvars, wvars, stopCh, wrapUp, sws, decodedCount, applied>>

\* resolveWrapper taking a copy of the event and leaving receive with it,
\* so that the same event is sent again.
ResolveWrapperReceives_LeavesEvent ==
    /\ wrapPc = "select"
    /\ sws[Current].pc = "send"
    /\ wrapUp' = sws[Current].obj
    /\ wrapPc' = "send"
    /\ UNCHANGED <<kvars, bvars, hvars, wvars, stopCh, untilPc, sws, decodedCount, applied>>

\* resolveWrapper, select: it receives the event receive is sending.
ResolveWrapperReceives ==
    /\ wrapPc = "select"
    /\ sws[Current].pc = "send"
    /\ wrapUp' = sws[Current].obj
    /\ wrapPc' = "send"
    /\ sws' = [sws EXCEPT ![Current].pc = "decode", ![Current].obj = <<>>,
                           ![Current].taken = @ + 1]
    /\ UNCHANGED <<kvars, bvars, hvars, wvars, stopCh, untilPc, decodedCount, applied>>

\* resolveWrapper forwarding what a receive from the closed channel yields,
\* the zero Event, instead of returning.
ResolveWrapperClosed_ForwardsZero ==
    /\ wrapPc = "select"
    /\ sws[Current].resultClosed
    /\ wrapUp' = <<[id |-> 0, ev |-> Event("", EmptyObject)]>>
    /\ wrapPc' = "send"
    /\ UNCHANGED <<kvars, bvars, hvars, wvars, stopCh, untilPc, sws, decodedCount, applied>>

\* resolveWrapper, select: the result channel is closed; it returns.
ResolveWrapperClosed ==
    /\ wrapPc = "select"
    /\ sws[Current].resultClosed
    /\ wrapPc' = "idle"
    /\ untilPc' = "wait"
    /\ UNCHANGED <<kvars, bvars, hvars, wvars, stopCh, wrapUp, sws, decodedCount, applied>>

\* Until, after f: stopCh is closed; Until returns.
UntilStopped ==
    /\ untilPc = "wait"
    /\ stopCh
    /\ untilPc' = "done"
    /\ UNCHANGED <<kvars, bvars, hvars, wvars, stopCh, wrapPc, wrapUp, sws, decodedCount, applied>>

\* Until with a loop that never looks at stopCh.
UntilPeriod_IgnoresStop ==
    /\ untilPc = "wait"
    /\ untilPc' = "call"
    /\ UNCHANGED <<kvars, bvars, hvars, wvars, stopCh, wrapPc, wrapUp, sws, decodedCount, applied>>

\* Until, after f: the period elapses before stopCh is closed; Until calls
\* f again.
UntilPeriod ==
    /\ untilPc = "wait"
    /\ ~stopCh
    /\ untilPc' = "call"
    /\ UNCHANGED <<kvars, bvars, hvars, wvars, stopCh, wrapPc, wrapUp, sws, decodedCount, applied>>

\* ------------------------------------------------------------------ Watcher

\* Next: it receives the event resolveWrapper is forwarding on the result
\* channel and applies it.
WatcherNext ==
    /\ wrapPc = "send"
    /\ ApplyEvent(wrapUp[1].ev)
    /\ applied' = Append(applied, wrapUp[1].id)
    /\ wrapPc' = "select"
    /\ wrapUp' = <<>>
    /\ UNCHANGED <<stopCh, untilPc, sws, decodedCount, kvars, bvars, hvars>>

\* Next: the stop channel is ready; it returns no update.
WatcherNextStopped ==
    /\ stopCh
    /\ updates' = <<>>
    /\ UNCHANGED <<target, endpoints, lastObj, sameAsPrev, wClosePc, pvars, kvars, bvars, hvars>>

\* Close: the stop signal.
WatcherClose ==
    /\ ~stopCh
    /\ stopCh' = TRUE
    /\ UNCHANGED <<kvars, bvars, hvars, wvars, untilPc, wrapPc, wrapUp, sws, decodedCount, applied>>

\* ------------------------------------------------------------------ Spec

\* The targets of the pipeline specification: the first port, a port name.
PipelineTargets == {parseTarget(<<Host>>), parseTarget(<<Host, NameDns>>)}

Init ==
    /\ target \in PipelineTargets
    /\ InitWatcher /\ InitPipeline /\ NoResolver /\ NoBuilder /\ NoBalancer

NextStep ==
    \/ \E i \in 1..Len(sws) : ReceiveDecode(i)
    \/ \E i \in 1..Len(sws) : ReceiveDecodeError(i)
    \/ \E i \in 1..Len(sws) : ReceiveDeferred(i)
    \/ UntilCheck
    \/ ResolveWrapperFails
    \/ ResolveWrapperSubscribes
    \/ ResolveWrapperStopped
    \/ ResolveWrapperReceives
    \/ ResolveWrapperClosed
    \/ UntilStopped
    \/ UntilPeriod
    \/ WatcherNext
    \/ WatcherNextStopped
    \/ WatcherClose

Spec == Init /\ [][NextStep]_vars

\* The steps the goroutines take on their own once they can: the retry
\* goroutine (the period is one second), resolveWrapper, the deferred calls
\* of receive, and the consumer, which calls Next in a loop.  Nothing
\* obliges the server to send an event or to end a stream, nor the caller
\* to close the Watcher.
ReceiveDeferredOf(i) == i <= Len(sws) /\ ReceiveDeferred(i)

Fairness ==
    /\ WF_vars(UntilCheck)
    /\ WF_vars(ResolveWrapperFails \/ ResolveWrapperSubscribes)
    /\ WF_vars(ResolveWrapperStopped)
    /\ WF_vars(ResolveWrapperReceives)
    /\ WF_vars(ResolveWrapperClosed)
    /\ WF_vars(UntilStopped)
    /\ WF_vars(UntilPeriod)
    /\ WF_vars(WatcherNext)
    /\ \A i \in 1..(MaxWatches + 1) : WF_vars(ReceiveDeferredOf(i))

FairSpec == Spec /\ Fairness

Open(i) == sws[i].sourceCloses = 0

C4_StopClosesTheSubscription ==
    stopCh ~> (\A i \in 1..Len(sws) : ~Open(i) /\ sws[i].pc = "exited")

\* C5 as stated: the retry goes on while stopCh is open, and no stream
\* watcher is ever created once stopCh is closed.
C5_Retries ==
    ((wrapPc = "select" /\ sws[Current].resultClosed) \/ untilPc = "wait")
        ~> (untilPc = "call" \/ stopCh)

C6_AtMostOneSubscription ==
    Cardinality({i \in 1..Len(sws) : Open(i)}) <= 1

\* After a reconnect and after the stop: the first source is closed, the
\* second open.
C6_Witness ==
    /\ Len(sws) >= 2
    /\ ~Open(1)
    /\ Open(2)
    /\ stopCh

C18_UnexpectedClosureIsSurfaced ==
    [][ \A i \in 1..Len(sws) :
          (sws[i].err = NoError /\ sws'[i].err # NoError) =>
              IF sws'[i].err \in {ErrUnexpectedEOF, ErrSyntax, ErrInvalidType}
              THEN /\ sws'[i].pc = "send"
                   /\ sws'[i].obj # <<>>
                   /\ sws'[i].obj[1].ev.Type = Error
              ELSE sws'[i].pc = "defer1" ]_vars

\* C19: when Next receives an Error event the materialized set stays as it
\* is and no update deletes an address.
C19_ErrorEventKeepsTheSet ==
    [][ (wrapPc = "send" /\ wrapUp[1].ev.Type = Error /\ wrapPc' = "select") =>
            /\ endpoints' = endpoints
            /\ DeletesOf(updates') = {} ]_vars

\* C30: no stream watcher ever holds an event of another type than ADDED,
\* MODIFIED, DELETED and ERROR to send, nor does resolveWrapper to forward:
\* when the stream carries one, Decode returns an error and receive leaves
\* its loop (to close the source and the channel).
C30_InvalidTypeIsNeverDelivered ==
    /\ \A i \in 1..Len(sws) :
          /\ sws[i].obj # <<>> => sws[i].obj[1].ev.Type \in EventType
          /\ sws[i].err = ErrInvalidType => sws[i].pc = "defer1"
    /\ wrapUp # <<>> => wrapUp[1].ev.Type \in EventType

\* A stream delivered an event and then carried one of an invalid type.
C30_Witness ==
    \E i \in 1..Len(sws) : sws[i].err = ErrInvalidType /\ sws[i].taken >= 1

\* C31: the request of every watch opened after the resolver has seen an
\* event carries, as resourceVersion, the resource version of the last event
\* seen (the events are numbered in the order the server issued them, and
\* the number stands for the resource version).
C31_RequestCarriesLastResourceVersion ==
    [][ (Len(sws') = Len(sws) + 1 /\ applied # <<>>) =>
            sws'[Len(sws')].resp.resourceVersion = Itoa(applied[Len(applied)]) ]_vars

\* C32: no stream watcher reads the body of a response whose status is not
\* 200 OK: such a response never becomes a subscription.
C32_OnlyStatusOKSubscribes ==
    \A i \in 1..Len(sws) : sws[i].resp.StatusCode = StatusOK

\* C33: Until never calls f when stopCh is closed as it starts, and calls
\* it otherwise; resolveWrapper is under way only inside the one call that
\* is running; a call starts only from the start of Until or from the wait
\* after the previous call returned, with stopCh not seen closed; and once
\* Until has returned no call starts.
C33_UntilCallsInTurn ==
    /\ [][ (untilPc = "check" /\ stopCh) => untilPc' \in {"check", "done"} ]_vars
    /\ [][ (untilPc = "check" /\ ~stopCh /\ untilPc' # "check") => untilPc' = "call" ]_vars
    /\ [](wrapPc # "idle" => untilPc = "running")
    /\ [][ (untilPc' = "call" /\ untilPc # "call") =>
              /\ wrapPc = "idle"
              /\ ~stopCh
              /\ untilPc \in {"check", "wait"} ]_vars
    /\ [][ untilPc = "done" => untilPc' = "done" ]_vars

\* The second call of resolveWrapper is running after the first returned
\* and the period elapsed.
C33_Witness ==
    /\ Len(sws) = 2
    /\ sws[1].resultClosed
    /\ untilPc = "running"
    /\ wrapPc = "select"

\* The fairness of the goroutines the resolver starts, and of nothing
\* else: the retry goroutine, resolveWrapper and the deferred calls of
\* receive take their steps once they can.  The consumer is free not to
\* call Next (gRPC calls it no more once it has closed the Watcher).
GoroutineFairness ==
    /\ WF_vars(UntilCheck)
    /\ WF_vars(ResolveWrapperFails \/ ResolveWrapperSubscribes)
    /\ WF_vars(ResolveWrapperStopped)
    /\ WF_vars(ResolveWrapperReceives)
    /\ WF_vars(ResolveWrapperClosed)
    /\ WF_vars(UntilStopped)
    /\ WF_vars(UntilPeriod)
    /\ \A i \in 1..(MaxWatches + 1) : WF_vars(ReceiveDeferredOf(i))

FairGoroutines == Spec /\ GoroutineFairness

\* C34: once stopCh is closed, Until returns in the end, whether or not a
\* consumer is receiving from the result channel.
C34_StopEndsTheGoroutine ==
    stopCh ~> untilPc = "done"

\* ------------------------------------------------------------------ SpecWatch
\* The generation without retry: Resolve sends the request itself, the
\* Watcher owns the stream watcher, Next reads its result channel and Close
\* signals Next on w.done and stops the stream watcher.

\* newResolver: the resourceVersion of the resolver, which nothing assigns
\* afterwards.
r_resourceVersion == <<"0">>

\* Resolve has returned a Watcher: the query of the request had the
\* resourceVersion of the resolver, the request was answered with 200 (any
\* other status makes Resolve close the body and return an error) and the
\* body is wrapped in a stream watcher.  There is no retry goroutine.
Resolve ==
    /\ target \in PipelineTargets
    /\ InitWatcher
    /\ stopCh = FALSE
    /\ untilPc = "done"
    /\ wrapPc = "idle"
    /\ wrapUp = <<>>
    /\ sws = <<newStreamWatcher(FALSE, Response(StatusOK, r_resourceVersion))>>
    /\ decodedCount = 0
    /\ applied = <<>>

\* Next, select: it receives the event receive is sending and applies it.
NextReceives ==
    /\ sws[1].pc = "send"
    /\ ApplyEvent(sws[1].obj[1].ev)
    /\ applied' = Append(applied, sws[1].obj[1].id)
    /\ sws' = [sws EXCEPT ![1].pc = "decode", ![1].obj = <<>>, ![1].taken = @ + 1]
    /\ UNCHANGED <<stopCh, untilPc, wrapPc, wrapUp, decodedCount, kvars, bvars, hvars>>

\* Next, select: the result channel is closed, the receive yields the zero
\* Event at once, and Next applies it like any other.
NextReceivesClosed ==
    /\ sws[1].resultClosed
    /\ ApplyEvent(Event("", EmptyObject))
    /\ UNCHANGED <<pvars, kvars, bvars, hvars>>

\* Close is called: it blocks sending on w.done.
CloseCalled ==
    /\ wClosePc = "idle"
    /\ wClosePc' = "sending"
    /\ UNCHANGED <<target, endpoints, updates, lastObj, sameAsPrev, pvars, kvars, bvars, hvars>>

\* Next, select: it receives from w.done and returns no update; the send of
\* Close is through.
NextDone ==
    /\ wClosePc = "sending"
    /\ updates' = <<>>
    /\ wClosePc' = "stopping"
    /\ UNCHANGED <<target, endpoints, lastObj, sameAsPrev, pvars, kvars, bvars, hvars>>

\* Close: w.watcher.Stop(), and Close returns.
CloseStops ==
    /\ wClosePc = "stopping"
    /\ sws' = [sws EXCEPT ![1] = Stop(@)]
    /\ wClosePc' = "returned"
    /\ UNCHANGED <<target, endpoints, updates, lastObj, sameAsPrev, stopCh, untilPc,
                   wrapPc, wrapUp, decodedCount, applied, kvars, bvars, hvars>>

InitWatch == Resolve /\ NoResolver /\ NoBuilder /\ NoBalancer

StepWatch ==
    \/ ReceiveDecode(1)
    \/ ReceiveDecodeError(1)
    \/ ReceiveDeferred(1)
    \/ NextReceives
    \/ NextReceivesClosed
    \/ CloseCalled
    \/ NextDone
    \/ CloseStops

SpecWatch == InitWatch /\ [][StepWatch]_vars

\* Decode returns an error once the source is closed: the contract of
\* decoder.Close.
DecodeAfterClose == sws[1].sourceCloses > 0 /\ ReceiveDecodeError(1)

\* The steps that are taken once they can be: the deferred calls of receive,
\* the return of a Decode whose source is closed, and the Stop of a Close
\* whose send is through.  Nothing obliges the server to send or to end the
\* stream, the consumer to call Next again, or the caller to call Close.
WatchFairness ==
    /\ WF_vars(ReceiveDeferredOf(1))
    /\ WF_vars(DecodeAfterClose)
    /\ WF_vars(CloseStops)

FairWatch == SpecWatch /\ WatchFairness

\* C20: once Decode has returned an error, or Stop has been called, the
\* result channel of the stream watcher is closed in the end, whether the
\* consumer goes on receiving or not.
C20_ErrorOrStopClosesTheChannel ==
    (sws[1].err # NoError \/ sws[1].stopped) ~> sws[1].resultClosed

\* C21: the source of a stream watcher is closed at most once, and exactly
\* once as soon as Stop has been called, by Close, by receive on its way
\* out, or by both in either order.
C21_SourceClosedOnce ==
    /\ sws[1].sourceCloses <= 1
    /\ sws[1].stopped <=> sws[1].sourceCloses = 1

\* Close has called Stop and receive has run its own Stop.
C21_Witness ==
    /\ wClosePc = "returned"
    /\ sws[1].pc = "exited"
    /\ sws[1].sourceCloses = 1

\* receive has left its loop: Decode has returned an error.
Left(sw) == sw.pc \in {"defer1", "defer2", "exited"}

\* C22: once Decode has returned an error, receive calls Decode no more and
\* sends no further event, and when it has exited the source is closed.
C22_NothingAfterDecodeError ==
    /\ [](sws[1].pc = "exited" => sws[1].sourceCloses = 1)
    /\ [][ (sws[1].err # NoError \/ Left(sws[1])) =>
              /\ Left(sws'[1])
              /\ sws'[1].obj = <<>>
              /\ sws'[1].taken = sws[1].taken
              /\ decodedCount' = decodedCount ]_vars

\* Decode failed after an event had been delivered, with no Stop from
\* outside, and receive has exited.
C22_Witness ==
    /\ sws[1].pc = "exited"
    /\ sws[1].taken >= 1
    /\ wClosePc = "idle"

\* C35: a Close that was called returns in the end, with the stream watcher
\* stopped, whether or not a Next is called to receive from w.done.
C35_CloseReturns ==
    (wClosePc = "sending") ~> (wClosePc = "returned" /\ sws[1].stopped)

\* C37: receive closes the result channel before it exits and closes it
\* only while it is open; once the channel is closed receive has left its
\* loop, holds no event to send, and the consumer takes no event from it.
C37_ResultClosedOnce ==
    /\ [](sws[1].pc = "exited" => sws[1].resultClosed)
    /\ [](sws[1].resultClosed => (Left(sws[1]) /\ sws[1].obj = <<>>))
    /\ [][ ( /\ sws[1].pc \in {"defer1", "defer2"}
             /\ sws'[1].pc # sws[1].pc
             /\ receiveDefers[IF sws[1].pc = "defer1" THEN 1 ELSE 2] = "close" )
              => ~sws[1].resultClosed ]_vars
    /\ [][ sws[1].resultClosed =>
              (sws'[1].resultClosed /\ sws'[1].taken = sws[1].taken) ]_vars

\* The channel is closed after the consumer took an event and Close called
\* Stop.
C37_Witness ==
    /\ sws[1].resultClosed
    /\ sws[1].taken >= 1
    /\ wClosePc = "returned"

\* ------------------------------------------------------------------ Balancer
\* The Balancer of the retrying generation: Dial appends a resolver to
\* b.resolvers, Resolve gives the resolver its Watcher, the Watcher's Next
\* replaces w.endpoints, and Healthy, called from any goroutine, ranges over
\* b.resolvers and reads each watcher's endpoints.  No lock guards any of
\* them.

\* The kubernetes targets dialed at most.
MaxDials == 2

\* newResolver: the resolver has no watcher yet.
newResolver(ti) == [target |-> ti, watcher |-> <<>>]

\* The Watcher literal of Resolve; updatedEndpoints is the local of Next
\* while Next is in the assignment w.endpoints = updatedEndpoints, else <<>>.
NewWatcher == [endpoints |-> {}, updatedEndpoints |-> <<>>]

\* Dial, kubernetes target: parseTarget, newResolver, and the append
\* evaluated; Dial is about to assign b.resolvers.
DialAppends ==
    /\ dialPc = <<>>
    /\ Len(resolvers) < MaxDials
    /\ \E ti \in PipelineTargets : dialPc' = <<newResolver(ti)>>
    /\ UNCHANGED <<resolvers, hPc, hLen, hIdx, hRet, wvars, pvars, kvars, bvars>>

\* Dial: b.resolvers is assigned; Dial goes on to grpc.Dial.
DialAssigns ==
    /\ dialPc # <<>>
    /\ resolvers' = Append(resolvers, dialPc[1])
    /\ dialPc' = <<>>
    /\ UNCHANGED <<hPc, hLen, hIdx, hRet, wvars, pvars, kvars, bvars>>

\* Resolve, called by the round-robin balancer of gRPC: r.watcher = w.
ResolveSetsWatcher(i) ==
    /\ resolvers[i].watcher = <<>>
    /\ resolvers' = [resolvers EXCEPT ![i].watcher = <<NewWatcher>>]
    /\ UNCHANGED <<dialPc, hPc, hLen, hIdx, hRet, wvars, pvars, kvars, bvars>>

\* Next of the i-th resolver's Watcher, up to the assignment: it has
\* received an event and built updatedEndpoints.
NextBuilds(i) ==
    /\ resolvers[i].watcher # <<>>
    /\ resolvers[i].watcher[1].updatedEndpoints = <<>>
    /\ \E ep \in StreamEvents :
          resolvers' = [resolvers EXCEPT ![i].watcher[1].updatedEndpoints =
              <<NextEndpoints(resolvers[i].watcher[1].endpoints, ep, resolvers[i].target)>>]
    /\ UNCHANGED <<dialPc, hPc, hLen, hIdx, hRet, wvars, pvars, kvars, bvars>>

\* Next: w.endpoints = updatedEndpoints is done, and Next returns.
NextAssigns(i) ==
    /\ resolvers[i].watcher # <<>>
    /\ resolvers[i].watcher[1].updatedEndpoints # <<>>
    /\ resolvers' = [resolvers EXCEPT
          ![i].watcher[1].endpoints = resolvers[i].watcher[1].updatedEndpoints[1],
          ![i].watcher[1].updatedEndpoints = <<>>]
    /\ UNCHANGED <<dialPc, hPc, hLen, hIdx, hRet, wvars, pvars, kvars, bvars>>

\* Healthy is called.
HealthyCalled ==
    /\ hPc = "idle"
    /\ hPc' = "range"
    /\ hLen' = 0
    /\ hIdx' = 0
    /\ hRet' = "none"
    /\ UNCHANGED <<resolvers, dialPc, wvars, pvars, kvars, bvars>>

\* Healthy: range b.resolvers reads the slice once.  While Dial is
\* assigning b.resolvers the read is a data race on the three words of the
\* slice: it yields the slice as it was (as it will be is the same read
\* after the assignment), or a pointer and a length of two different
\* slices, and with that the loop dereferences what is no resolver.
HealthyRanges ==
    /\ hPc = "range"
    /\ \/ /\ hLen' = Len(resolvers)
          /\ hIdx' = 1
          /\ hPc' = "loop"
          /\ UNCHANGED hRet
       \/ /\ dialPc # <<>>
          /\ hRet' = "panic"
          /\ hPc' = "idle"
          /\ UNCHANGED <<hLen, hIdx>>
    /\ UNCHANGED <<resolvers, dialPc, wvars, pvars, kvars, bvars>>

\* Healthy, the head of the loop: the range is over and Healthy returns
\* nil, or it turns to the next resolver.
HealthyVisits ==
    /\ hPc = "loop"
    /\ IF hIdx > hLen
       THEN hRet' = "nil" /\ hPc' = "idle"
       ELSE hPc' = "reading" /\ UNCHANGED hRet
    /\ UNCHANGED <<resolvers, dialPc, hLen, hIdx, wvars, pvars, kvars, bvars>>

\* What a read of w.endpoints may yield: the map it holds, or, while Next is
\* assigning it, the map being assigned.
Seen(w) ==
    {w.endpoints} \cup
        (IF w.updatedEndpoints # <<>> THEN {w.updatedEndpoints[1]} ELSE {})

\* Healthy taking a resolver without watcher for one without endpoints.
HealthyReads_MissingWatcherIsEmpty ==
    /\ hPc = "reading"
    /\ LET r == resolvers[hIdx]
       IN  \E seen \in (IF r.watcher = <<>> THEN {{}} ELSE Seen(r.watcher[1])) :
              IF seen = {}
              THEN hRet' = "error" /\ hPc' = "idle" /\ UNCHANGED hIdx
              ELSE hIdx' = hIdx + 1 /\ hPc' = "loop" /\ UNCHANGED hRet
    /\ UNCHANGED <<resolvers, dialPc, hLen, wvars, pvars, kvars, bvars>>

\* Healthy, the body of the loop: a resolver without watcher is passed
\* over; one whose watcher has no endpoints makes Healthy return an error.
HealthyReads ==
    /\ hPc = "reading"
    /\ LET r == resolvers[hIdx]
       IN  IF r.watcher = <<>>
           THEN hIdx' = hIdx + 1 /\ hPc' = "loop" /\ UNCHANGED hRet
           ELSE \E seen \in Seen(r.watcher[1]) :
                  IF seen = {}
                  THEN hRet' = "error" /\ hPc' = "idle" /\ UNCHANGED hIdx
                  ELSE hIdx' = hIdx + 1 /\ hPc' = "loop" /\ UNCHANGED hRet
    /\ UNCHANGED <<resolvers, dialPc, hLen, wvars, pvars, kvars, bvars>>

\* No Watcher, no retry goroutine and no stream watcher outside the
\* Balancer's resolvers.
NoWatcher ==
    /\ target = parseTarget(<<Host>>)
    /\ InitWatcher
    /\ stopCh = FALSE
    /\ untilPc = "done"
    /\ wrapPc = "idle"
    /\ wrapUp = <<>>
    /\ sws = <<>>
    /\ decodedCount = 0
    /\ applied = <<>>

InitBalancer == NoWatcher /\ NoResolver /\ NoBuilder /\ NoBalancer

StepBalancer ==
    \/ DialAppends
    \/ DialAssigns
    \/ \E i \in 1..Len(resolvers) : ResolveSetsWatcher(i)
    \/ \E i \in 1..Len(resolvers) : NextBuilds(i)
    \/ \E i \in 1..Len(resolvers) : NextAssigns(i)
    \/ HealthyCalled
    \/ HealthyRanges
    \/ HealthyVisits
    \/ HealthyReads

SpecBalancer == InitBalancer /\ [][StepBalancer]_vars

\* C38: Healthy never reads b.resolvers while Dial is assigning it, and
\* never reads the endpoints of a watcher while that watcher's Next is
\* assigning them.
C38_NoUnsynchronizedAccess ==
    /\ ~(hPc = "range" /\ dialPc # <<>>)
    /\ ~( /\ hPc = "reading"
          /\ resolvers[hIdx].watcher # <<>>
          /\ resolvers[hIdx].watcher[1].updatedEndpoints # <<>> )

\* C39: Healthy returns an error only at a resolver that has a watcher
\* whose endpoints are empty when Healthy reads them, and always there; it
\* passes over a resolver only if it has no watcher or its watcher has
\* endpoints; and it returns nil only when it has passed over every
\* resolver of b.resolvers, so at once when there is none.
C39_HealthyReportsEmptyWatchers ==
    /\ [][ (hRet = "none" /\ hRet' = "error") =>
              /\ hPc = "reading"
              /\ resolvers[hIdx].watcher # <<>>
              /\ {} \in Seen(resolvers[hIdx].watcher[1]) ]_vars
    /\ [][ (hPc = "reading" /\ hPc' = "loop") =>
              /\ hIdx' = hIdx + 1
              /\ \/ resolvers[hIdx].watcher = <<>>
                 \/ Seen(resolvers[hIdx].watcher[1]) # {{}} ]_vars
    /\ [][ (hRet = "none" /\ hRet' = "nil") =>
              (hPc = "loop" /\ hIdx = hLen + 1) ]_vars
    /\ [][ (hPc = "range" /\ hPc' = "loop") =>
              (hIdx' = 1 /\ hLen' = Len(resolvers)) ]_vars
    /\ [][ (hPc = "loop" /\ hLen = 0 /\ hPc' # "loop") => hRet' = "nil" ]_vars

\* Healthy has passed over a first resolver that has no watcher yet and
\* returned an error at the second, whose watcher has no endpoints.
C39_Witness ==
    /\ hRet = "error"
    /\ hIdx = 2
    /\ resolvers[1].watcher = <<>>
    /\ resolvers[2].watcher # <<>>
    /\ resolvers[2].watcher[1].endpoints = {}
    /\ resolvers[2].watcher[1].updatedEndpoints = <<>>

\* ------------------------------------------------------------------ kResolver: addresses

ServiceName == <<"s", "v", "c">>
Namespace == <<"n", "s">>

\* The targetInfo of the Builder generation.
kTargetInfo(service, namespace, port, resolveByPortName, useFirstPort) ==
    [ serviceName |-> service, serviceNamespace |-> namespace, port |-> port,
      resolveByPortName |-> resolveByPortName, useFirstPort |-> useFirstPort ]

\* parseResolverTarget testing Atoi first, whether there is a port or not.
parseResolverTargetFlags_AtoiFirst(service, namespace, port) ==
    kTargetInfo(service, namespace, port, ~IsNumeric(port), port = <<>>)

\* parseResolverTarget, once service, port and namespace are split: no port
\* gives useFirstPort, a port Atoi rejects gives resolveByPortName.
parseResolverTargetFlags(service, namespace, port) ==
    kTargetInfo(service, namespace, port,
                port # <<>> /\ ~IsNumeric(port), port = <<>>)

\* The ports of the targets the model builds resolvers for: none, a number,
\* a name the subsets know, a number the subsets do not list.
KPorts == {<<>>, <<"5", "3">>, NameDns, <<"8", "0", "8", "0">>}

\* strings.IndexByte and strings.LastIndexByte, counting from 1: 0 when c
\* does not occur in s.
IndexByte(s, c) ==
    LET at == {i \in 1..Len(s) : s[i] = c}
    IN  IF at = {} THEN 0 ELSE CHOOSE i \in at : \A j \in at : i <= j

LastIndexByte(s, c) ==
    LET at == {i \in 1..Len(s) : s[i] = c}
    IN  IF at = {} THEN 0 ELSE CHOOSE i \in at : \A j \in at : j <= i

\* strings.SplitN(s, ".", 3).
SplitN3(s) ==
    LET d1 == IndexByte(s, ".")
        rest == SubSeq(s, d1 + 1, Len(s))
        d2 == IndexByte(rest, ".")
    IN  IF d1 = 0 THEN <<s>>
        ELSE IF d2 = 0 THEN <<SubSeq(s, 1, d1 - 1), rest>>
        ELSE <<SubSeq(s, 1, d1 - 1), SubSeq(rest, 1, d2 - 1),
               SubSeq(rest, d2 + 1, Len(rest))>>

\* splitServicePortNamespace without the split into labels.
splitServicePortNamespace_NoLabels(hpn) ==
    LET colon == LastIndexByte(hpn, ":")
        service == IF colon # 0 THEN SubSeq(hpn, 1, colon - 1) ELSE hpn
        port == IF colon # 0 THEN SubSeq(hpn, colon + 1, Len(hpn)) ELSE <<>>
    IN  [service |-> service, port |-> port, namespace |-> <<>>]

\* splitServicePortNamespace: the port is what follows the last colon; of
\* the rest, the first label is the service and the second the namespace.
splitServicePortNamespace(hpn) ==
    LET colon == LastIndexByte(hpn, ":")
        service == IF colon # 0 THEN SubSeq(hpn, 1, colon - 1) ELSE hpn
        port == IF colon # 0 THEN SubSeq(hpn, colon + 1, Len(hpn)) ELSE <<>>
        parts == SplitN3(service)
    IN  IF Len(parts) >= 2
        THEN [service |-> parts[1], port |-> port, namespace |-> parts[2]]
        ELSE [service |-> service, port |-> port, namespace |-> <<>>]

\* A target's URL: its Host (with the port, if any) and its Path.
URL(host, path) == [Host |-> host, Path |-> path]

\* resolver.Target.Endpoint: the path without its leading slash.
Endpoint(u) ==
    IF u.Path # <<>> /\ Head(u.Path) = "/" THEN Tail(u.Path) ELSE u.Path

\* url.URL.Port and url.URL.Hostname: the host is split at its last colon
\* when only digits follow.
HostColon(u) ==
    LET colon == LastIndexByte(u.Host, ":")
    IN  IF colon # 0 /\ \A i \in (colon + 1)..Len(u.Host) : u.Host[i] \in Range(Digits)
        THEN colon ELSE 0

URLPort(u) ==
    IF HostColon(u) = 0 THEN <<>> ELSE SubSeq(u.Host, HostColon(u) + 1, Len(u.Host))

URLHostname(u) ==
    IF HostColon(u) = 0 THEN u.Host ELSE SubSeq(u.Host, 1, HostColon(u) - 1)

\* What parseResolverTarget returns: a targetInfo, or the zero targetInfo and
\* an error.
Parsed(ti) == [err |-> FALSE, ti |-> ti]
ParseError == [err |-> TRUE, ti |-> kTargetInfo(<<>>, <<>>, <<>>, FALSE, FALSE)]

\* parseResolverTarget that accepts a target without a service.
parseResolverTarget_NoServiceCheck(u) ==
    LET r == IF u.Host = <<>>
             THEN splitServicePortNamespace(Endpoint(u))
             ELSE IF URLPort(u) = <<>> /\ Endpoint(u) # <<>>
             THEN [splitServicePortNamespace(Endpoint(u)) EXCEPT !.namespace = URLHostname(u)]
             ELSE splitServicePortNamespace(u.Host)
    IN  Parsed(parseResolverTargetFlags(r.service, r.namespace, r.port))

\* parseResolverTarget: kubernetes:///service.namespace:port,
\* kubernetes://namespace/service:port, kubernetes://service.namespace:port.
parseResolverTarget(u) ==
    LET r == IF u.Host = <<>>
             THEN splitServicePortNamespace(Endpoint(u))
             ELSE IF URLPort(u) = <<>> /\ Endpoint(u) # <<>>
             THEN [splitServicePortNamespace(Endpoint(u)) EXCEPT !.namespace = URLHostname(u)]
             ELSE splitServicePortNamespace(u.Host)
    IN  IF r.service = <<>> THEN ParseError
        ELSE Parsed(parseResolverTargetFlags(r.service, r.namespace, r.port))

\* A result, or the panic that ended the call.
Ok(v) == [panic |-> FALSE, value |-> v]
Panic == [panic |-> TRUE, value |-> <<>>]

\* extractPortFromSubset taking the first port whatever the target says.
extractPortFromSubset_FirstPortAlways(subset, ti) ==
    IF Len(subset.Ports) = 0 THEN Panic ELSE Ok(Itoa(subset.Ports[1].Port))

\* extractPortFromSubset.  subset.Ports[0] panics when the subset lists no
\* port.
extractPortFromSubset(subset, ti) ==
    LET ports == subset.Ports
        named == {i \in 1..Len(ports) : ports[i].Name = ti.port}
    IN  IF ti.useFirstPort
        THEN IF Len(ports) = 0 THEN Panic ELSE Ok(Itoa(ports[1].Port))
        ELSE IF ti.resolveByPortName /\ named # {}
        THEN Ok(Itoa(ports[CHOOSE i \in named : \A j \in named : i <= j].Port))
        ELSE IF Len(ti.port) # 0
        THEN Ok(ti.port)
        ELSE IF Len(ports) = 0 THEN Panic ELSE Ok(Itoa(ports[1].Port))

Address(addr, serverName) == [Addr |-> addr, ServerName |-> serverName]

\* makeAddresses ranging over the not-ready addresses as well.
RECURSIVE makeAddressesFrom_WithNotReady(_, _, _, _)
makeAddressesFrom_WithNotReady(subsets, n, acc, ti) ==
    IF n > Len(subsets) THEN Ok(acc)
    ELSE LET subset == subsets[n]
             all == subset.Addresses \o subset.NotReadyAddresses
             port == extractPortFromSubset(subset, ti)
         IN  IF port.panic THEN Panic
             ELSE makeAddressesFrom_WithNotReady(subsets, n + 1,
                    acc \o [a \in 1..Len(all) |->
                              Address(JoinHostPort(all[a], port.value),
                                      ti.serviceName \o <<".">> \o ti.serviceNamespace)],
                    ti)

\* makeAddresses for the subsets from the n-th on, appended to acc.
RECURSIVE makeAddressesFrom(_, _, _, _)
makeAddressesFrom(subsets, n, acc, ti) ==
    IF n > Len(subsets) THEN Ok(acc)
    ELSE LET subset == subsets[n]
             port == extractPortFromSubset(subset, ti)
         IN  IF port.panic THEN Panic
             ELSE makeAddressesFrom(subsets, n + 1,
                    acc \o [a \in 1..Len(subset.Addresses) |->
                              Address(JoinHostPort(subset.Addresses[a], port.value),
                                      ti.serviceName \o <<".">> \o ti.serviceNamespace)],
                    ti)

\* makeAddresses: e is <<object>>, or <<>> for nil (the deletion case).
makeAddresses(e, ti) ==
    IF e = <<>> THEN Ok(<<>>)
    ELSE makeAddressesFrom(e[1].Subsets, 1, <<>>, ti)

AddrSet(addrs) == {addrs[i].Addr : i \in 1..Len(addrs)}

\* ------------------------------------------------------------------ kResolver: Build, Close

\* The Endpoints objects the informer of the model delivers.
ObjNoAddresses == [Subsets |-> <<Subset(<<>>, <<IP3>>, <<PortDns>>)>>]
ObjNoPorts == [Subsets |-> <<Subset(<<IP2>>, <<>>, <<>>)>>]

\* A subset without ports beside one with a port, and an IP that two
\* subsets share.
ObjPortless == [Subsets |-> << Subset(<<IP2>>, <<>>, <<>>),
                               Subset(<<IP1>>, <<>>, <<PortDns>>) >>]
ObjSharedIP == [Subsets |-> << Subset(<<IP1>>, <<>>, <<PortDns>>),
                               Subset(<<IP1, IP2>>, <<IP3>>, <<PortHttp, PortDns>>) >>]

KObjects == {ObjA, ObjB, ObjNoAddresses, ObjNoPorts, ObjPortless, ObjSharedIP,
             EmptyObject}

\* What the callers of the model mean: a service, a namespace (none, or a
\* label, or a label followed by the cluster's suffix), a port, and one of
\* the three forms of target.  The second form keeps the port in the URL's
\* host, where only a number parses; the third has the namespace as host.
\* Targets without a service are written in the first and second form.
ClusterSuffix ==
    << ".", "s", "v", "c", ".", "c", "l", "u", "s", "t", "e", "r",
       ".", "l", "o", "c", "a", "l" >>

Ask(form, service, namespace, suffix, port) ==
    [form |-> form, service |-> service, namespace |-> namespace,
     suffix |-> suffix, port |-> port]

Asks ==
    { Ask(1, ServiceName, n, <<>>, p) : n \in {<<>>, Namespace}, p \in KPorts }
        \cup { Ask(1, ServiceName, Namespace, ClusterSuffix, p) : p \in KPorts }
        \cup { Ask(2, ServiceName, n, <<>>, p) :
                   n \in {<<>>, Namespace}, p \in KPorts \ {NameDns} }
        \cup { Ask(2, ServiceName, Namespace, ClusterSuffix, p) : p \in KPorts \ {NameDns} }
        \cup { Ask(3, ServiceName, Namespace, <<>>, p) : p \in KPorts }
        \cup { Ask(1, <<>>, <<>>, <<>>, p) : p \in {<<>>, <<"5", "3">>} }
        \cup { Ask(2, <<>>, <<>>, <<>>, <<"5", "3">>) }

\* The URL of the target a caller writes for what it means.
Dial(a) ==
    LET labels == IF a.namespace = <<>> THEN a.service
                  ELSE a.service \o <<".">> \o a.namespace \o a.suffix
        withPort(t) == IF a.port = <<>> THEN t ELSE t \o <<":">> \o a.port
    IN  IF a.form = 1 THEN URL(<<>>, <<"/">> \o withPort(labels))
        ELSE IF a.form = 2 THEN URL(withPort(labels), <<>>)
        ELSE URL(a.namespace, <<"/">> \o withPort(a.service))

\* The namespace file: unreadable, holding a namespace, or readable and
\* empty.
NamespaceInFile == <<"k", "s">>
NsFiles == {<<>>, <<NamespaceInFile>>, <<<<>>>>}

defaultNamespace == <<"d", "e", "f", "a", "u", "l", "t">>

\* getCurrentNamespaceOrDefault: the content of the file, or the default
\* when reading fails.
getCurrentNamespaceOrDefault(file) ==
    IF file = <<>> THEN defaultNamespace ELSE file[1]

\* Build publishing an empty list before it returns.
Build_PublishesFirst ==
    /\ buildRet = "none"
    /\ dial # <<>>
    /\ LET r == parseResolverTarget(dial)
       IN  IF r.err
           THEN /\ buildRet' = "error"
                /\ UNCHANGED <<kTarget, wg, bg, ccAddrs>>
           ELSE /\ buildRet' = "resolver"
                /\ kTarget' = IF r.ti.serviceNamespace = <<>>
                               THEN [r.ti EXCEPT !.serviceNamespace =
                                                    getCurrentNamespaceOrDefault(nsFile)]
                               ELSE r.ti
                /\ wg' = 1
                /\ bg' = "running"
                /\ ccAddrs' = <<<<>>>>
    /\ UNCHANGED <<ctxDone, closePc, kExists, kHandler, kArg, kAddrs,
                   gaugeEndpoints, gaugeAddresses, crashed, kResolved, kLast,
                   asked, dial, nsFile, resolveNows, wvars, pvars, hvars>>

\* Build.  A target parseResolverTarget rejects is returned as the error,
\* before anything is created.  Otherwise an empty namespace is replaced,
\* the handlers are registered with a new informer, wg.Add(1) is done, the
\* goroutine that runs informer.Run is started and the resolver is
\* returned.  (A new informer accepts the handlers and has not synced.)
Build ==
    /\ buildRet = "none"
    /\ dial # <<>>
    /\ LET r == parseResolverTarget(dial)
       IN  IF r.err
           THEN /\ buildRet' = "error"
                /\ UNCHANGED <<kTarget, wg, bg>>
           ELSE /\ buildRet' = "resolver"
                /\ kTarget' = IF r.ti.serviceNamespace = <<>>
                               THEN [r.ti EXCEPT !.serviceNamespace =
                                                    getCurrentNamespaceOrDefault(nsFile)]
                               ELSE r.ti
                /\ wg' = 1
                /\ bg' = "running"
    /\ UNCHANGED <<ctxDone, closePc, kExists, kHandler, kArg, kAddrs, ccAddrs,
                   gaugeEndpoints, gaugeAddresses, crashed, kResolved, kLast,
                   asked, dial, nsFile, resolveNows, wvars, pvars, hvars>>

\* What the history keeps of one handled event.
Handled(type, changed, published, finished) ==
    [type |-> type, changed |-> changed, published |-> published, finished |-> finished]

\* handleEndpointsUpdate(e), up to the call of cc.NewAddress: makeAddresses,
\* then the test len(addrs) > 0.  A panic in makeAddresses leaves the
\* handler.
handleEndpointsUpdate(type, e) ==
    /\ kHandler = "idle"
    /\ kArg' = e
    /\ LET r == makeAddresses(e, kTarget)
           changed == r.panic \/ AddrSet(r.value) # kResolved
       IN  IF r.panic
           THEN /\ crashed' = TRUE
                /\ kLast' = <<Handled(type, changed, FALSE, FALSE)>>
                /\ UNCHANGED <<kHandler, kAddrs, kResolved>>
           ELSE /\ kAddrs' = r.value
                /\ kHandler' = IF Len(r.value) > 0 THEN "publish" ELSE "gauges"
                /\ kLast' = <<Handled(type, changed, FALSE, FALSE)>>
                /\ kResolved' = AddrSet(r.value)
                /\ UNCHANGED crashed
    /\ UNCHANGED <<gaugeEndpoints, gaugeAddresses, ccAddrs>>

\* The informer calls AddFunc: the object appeared.
AddFunc ==
    /\ bg = "running"
    /\ ~crashed
    /\ ~kExists
    /\ \E o \in KObjects : handleEndpointsUpdate(Added, <<o>>)
    /\ kExists' = TRUE
    /\ UNCHANGED <<kTarget, ctxDone, wg, bg, closePc, wvars, pvars, bvars, hvars>>

\* The informer calls UpdateFunc: the object changed, or was listed again.
UpdateFunc ==
    /\ bg = "running"
    /\ ~crashed
    /\ kExists
    /\ \E o \in KObjects : handleEndpointsUpdate(Modified, <<o>>)
    /\ UNCHANGED <<kExists, kTarget, ctxDone, wg, bg, closePc, wvars, pvars, bvars, hvars>>

\* The informer calls DeleteFunc: the object is gone; the handler gets nil.
DeleteFunc ==
    /\ bg = "running"
    /\ ~crashed
    /\ kExists
    /\ handleEndpointsUpdate(Deleted, <<>>)
    /\ kExists' = FALSE
    /\ UNCHANGED <<kTarget, ctxDone, wg, bg, closePc, wvars, pvars, bvars, hvars>>

\* handleEndpointsUpdate: cc.NewAddress(addrs).
NewAddress ==
    /\ kHandler = "publish"
    /\ ~crashed
    /\ ccAddrs' = <<kAddrs>>
    /\ kLast' = <<[kLast[1] EXCEPT !.published = TRUE]>>
    /\ kHandler' = "gauges"
    /\ UNCHANGED <<kTarget, ctxDone, wg, bg, closePc, kExists, kArg, kAddrs,
                   gaugeEndpoints, gaugeAddresses, crashed, kResolved, wvars, pvars, bvars, hvars>>

\* handleEndpointsUpdate setting each gauge to the other's number.
SetGauges_Swapped ==
    /\ kHandler = "gauges"
    /\ ~crashed
    /\ IF kArg = <<>>
       THEN /\ crashed' = TRUE
            /\ UNCHANGED <<kHandler, gaugeEndpoints, gaugeAddresses, kLast>>
       ELSE /\ gaugeEndpoints' = Len(kAddrs)
            /\ gaugeAddresses' = Len(kArg[1].Subsets)
            /\ kHandler' = "idle"
            /\ kLast' = <<[kLast[1] EXCEPT !.finished = TRUE]>>
            /\ UNCHANGED crashed
    /\ UNCHANGED <<kTarget, ctxDone, wg, bg, closePc, kExists, kArg, kAddrs,
                   ccAddrs, kResolved, wvars, pvars, bvars, hvars>>

\* handleEndpointsUpdate: the two gauges.  len(e.Subsets) panics when e is
\* nil.
SetGauges ==
    /\ kHandler = "gauges"
    /\ ~crashed
    /\ IF kArg = <<>>
       THEN /\ crashed' = TRUE
            /\ UNCHANGED <<kHandler, gaugeEndpoints, gaugeAddresses, kLast>>
       ELSE /\ gaugeEndpoints' = Len(kArg[1].Subsets)
            /\ gaugeAddresses' = Len(kAddrs)
            /\ kHandler' = "idle"
            /\ kLast' = <<[kLast[1] EXCEPT !.finished = TRUE]>>
            /\ UNCHANGED crashed
    /\ UNCHANGED <<kTarget, ctxDone, wg, bg, closePc, kExists, kArg, kAddrs,
                   ccAddrs, kResolved, wvars, pvars, bvars, hvars>>

\* Close: k.cancel(), then the caller waits in k.wg.Wait().
CloseCancel ==
    /\ buildRet = "resolver"
    /\ closePc = "idle"
    /\ ~crashed
    /\ ctxDone' = TRUE
    /\ closePc' = "waiting"
    /\ UNCHANGED <<kTarget, wg, bg, kExists, kHandler, kArg, kAddrs, ccAddrs,
                   gaugeEndpoints, gaugeAddresses, crashed, kResolved, kLast,
                   wvars, pvars, bvars, hvars>>

\* The goroutine of Build: informer.Run returns once the context is done and
\* its handlers have returned; the deferred function calls wg.Done().
InformerRunReturns ==
    /\ bg = "running"
    /\ ~crashed
    /\ ctxDone
    /\ kHandler = "idle"
    /\ bg' = "exited"
    /\ wg' = wg - 1
    /\ UNCHANGED <<kTarget, ctxDone, closePc, kExists, kHandler, kArg, kAddrs,
                   ccAddrs, gaugeEndpoints, gaugeAddresses, crashed, kResolved,
                   kLast, wvars, pvars, bvars, hvars>>

\* Close returning without waiting for the WaitGroup.
CloseReturns_NoWait ==
    /\ closePc = "waiting"
    /\ ~crashed
    /\ closePc' = "returned"
    /\ UNCHANGED <<kTarget, ctxDone, wg, bg, kExists, kHandler, kArg, kAddrs,
                   ccAddrs, gaugeEndpoints, gaugeAddresses, crashed, kResolved,
                   kLast, wvars, pvars, bvars, hvars>>

\* Close: k.wg.Wait() returns when the counter is zero.
CloseReturns ==
    /\ closePc = "waiting"
    /\ ~crashed
    /\ wg = 0
    /\ closePc' = "returned"
    /\ UNCHANGED <<kTarget, ctxDone, wg, bg, kExists, kHandler, kArg, kAddrs,
                   ccAddrs, gaugeEndpoints, gaugeAddresses, crashed, kResolved,
                   kLast, wvars, pvars, bvars, hvars>>

\* ------------------------------------------------------------------ SpecK

\* ResolveNow publishing the list resolved last once more.
ResolveNow_Republishes ==
    /\ buildRet = "resolver"
    /\ ~crashed
    /\ resolveNows < MaxResolveNows
    /\ resolveNows' = resolveNows + 1
    /\ ccAddrs' = <<kAddrs>>
    /\ UNCHANGED <<kTarget, ctxDone, wg, bg, closePc, kExists, kHandler, kArg, kAddrs,
                   gaugeEndpoints, gaugeAddresses, crashed, kResolved, kLast,
                   asked, dial, nsFile, buildRet, wvars, pvars, hvars>>

\* ResolveNow: its body is empty.
ResolveNow ==
    /\ buildRet = "resolver"
    /\ ~crashed
    /\ resolveNows < MaxResolveNows
    /\ resolveNows' = resolveNows + 1
    /\ UNCHANGED <<kTarget, ctxDone, wg, bg, closePc, kExists, kHandler, kArg, kAddrs,
                   ccAddrs, gaugeEndpoints, gaugeAddresses, crashed, kResolved, kLast,
                   asked, dial, nsFile, buildRet, wvars, pvars, hvars>>

\* A caller is about to call Build with the target it wrote; no resolver
\* exists yet.
InitK ==
    /\ target = targetInfo(<<>>, FALSE, TRUE)
    /\ InitWatcher
    /\ InitPipeline
    /\ NoResolver
    /\ asked \in Asks
    /\ dial = Dial(asked)
    /\ nsFile \in NsFiles
    /\ buildRet = "none"
    /\ resolveNows = 0
    /\ NoBalancer

StepK ==
    \/ Build
    \/ ResolveNow
    \/ AddFunc
    \/ UpdateFunc
    \/ DeleteFunc
    \/ NewAddress
    \/ SetGauges
    \/ CloseCancel
    \/ InformerRunReturns
    \/ CloseReturns

SpecK == InitK /\ [][StepK]_vars

\* The handler has left the event handled last: it returned, or a panic
\* ended it.
HandlerLeft == kLast # <<>> /\ (kLast[1].finished \/ crashed)

\* C2: once a deletion has been handled while addresses were published, the
\* list the consumer received last is the empty list.
C2_DeletePublishesEmptyList ==
    (HandlerLeft /\ kLast[1].type = Deleted /\ ccAddrs # <<>>)
        => ccAddrs[1] = <<>>

\* C3: Close has returned only if the goroutine of Build has exited, and
\* from then on no handler runs and nothing is published.
C3_CloseJoinsTheBackgroundTask ==
    /\ [](closePc = "returned" => bg = "exited" /\ wg = 0 /\ kHandler = "idle")
    /\ [][closePc = "returned" => kHandler' = "idle" /\ ccAddrs' = ccAddrs]_vars

\* Close has returned after addresses were published.
C3_Witness ==
    /\ closePc = "returned"
    /\ ccAddrs # <<>>
    /\ kLast[1].finished

\* C8: the handler publishes for an event exactly when the event changes the
\* set of addresses (something added or something removed).
C8_PublishesIffChanged ==
    (kLast # <<>> /\ kLast[1].finished)
        => (kLast[1].published <=> kLast[1].changed)

\* The handler holds the list makeAddresses returned for the object kArg.
Resolved == kArg # <<>> /\ kHandler \in {"publish", "gauges"}

\* C13: with the first port as target, a subset that lists no port neither
\* crashes the handler nor costs the other subsets their addresses: the
\* resolved list holds the ready addresses of every subset that has a port,
\* each with that subset's first port.
C13_PortlessGroupIsSkipped ==
    (kArg # <<>> /\ kTarget.useFirstPort
       /\ \E i \in 1..Len(kArg[1].Subsets) : kArg[1].Subsets[i].Ports = <<>>)
    => /\ ~crashed
       /\ Resolved =>
            AddrSet(kAddrs) =
                UNION { LET subset == kArg[1].Subsets[i]
                        IN  IF subset.Ports = <<>> THEN {}
                            ELSE {JoinHostPort(subset.Addresses[a],
                                               Itoa(subset.Ports[1].Port)) :
                                    a \in 1..Len(subset.Addresses)}
                      : i \in 1..Len(kArg[1].Subsets) }

\* The port the target asks for in a subset that has ports: the first port's
\* number, or the number of the first port with the target's name, or the
\* target's number as written.
PortAskedFor(subset, ti) ==
    IF ti.useFirstPort THEN Itoa(subset.Ports[1].Port)
    ELSE IF ti.resolveByPortName
    THEN LET named == {p \in 1..Len(subset.Ports) : subset.Ports[p].Name = ti.port}
         IN  Itoa(subset.Ports[CHOOSE p \in named : \A q \in named : p <= q].Port)
    ELSE ti.port

\* Every subset of the object has a port, and one of the target's name when
\* the target resolves by name.
PortsAnswer(obj, ti) ==
    \A i \in 1..Len(obj.Subsets) :
        /\ obj.Subsets[i].Ports # <<>>
        /\ ti.resolveByPortName =>
              \E p \in 1..Len(obj.Subsets[i].Ports) :
                  obj.Subsets[i].Ports[p].Name = ti.port

\* C14: when every subset has a port to answer the target, the resolved
\* addresses are the ready addresses of each subset, all with the one port
\* the target asks for in that subset: the first port's number, the number
\* of the first port of the target's name, or the target's number verbatim.
C14_PortIsTheOneAskedFor ==
    (Resolved /\ PortsAnswer(kArg[1], kTarget)) =>
        AddrSet(kAddrs) =
            UNION { LET subset == kArg[1].Subsets[i]
                    IN  {JoinHostPort(subset.Addresses[a], PortAskedFor(subset, kTarget)) :
                            a \in 1..Len(subset.Addresses)}
                  : i \in 1..Len(kArg[1].Subsets) }

\* A list was resolved by name to the second port of a subset and
\* published.
C14_Witness ==
    /\ Resolved
    /\ kArg[1] = ObjA
    /\ kTarget.resolveByPortName
    /\ ccAddrs = <<kAddrs>>
    /\ AddrSet(kAddrs) = {JoinHostPort(IP1, Itoa(53)), JoinHostPort(IP2, Itoa(53))}

\* The host of an address host:port (the hosts of the model hold no colon).
HostOf(addr) ==
    LET colon == CHOOSE i \in 1..Len(addr) :
                     addr[i] = ":" /\ \A j \in 1..(i - 1) : addr[j] # ":"
    IN  SubSeq(addr, 1, colon - 1)

\* The ready addresses of the subsets, subset after subset.
RECURSIVE ReadyOf(_)
ReadyOf(subsets) ==
    IF subsets = <<>> THEN <<>>
    ELSE Head(subsets).Addresses \o ReadyOf(Tail(subsets))

\* C15: the resolved list has one entry for each ready address of each
\* subset, in their order, and none for a not-ready address.
C15_OneEntryPerReadyAddress ==
    Resolved =>
        [i \in 1..Len(kAddrs) |-> HostOf(kAddrs[i].Addr)] = ReadyOf(kArg[1].Subsets)

\* A list was resolved from two subsets, one with a not-ready address, and
\* published.
C15_Witness ==
    /\ Resolved
    /\ kArg[1] = ObjSharedIP
    /\ ccAddrs = <<kAddrs>>
    /\ Len(kAddrs) = 3

\* C16: no address occurs twice in a list the consumer received.
C16_PublishedListIsDeduplicated ==
    ccAddrs # <<>> =>
        \A i, j \in 1..Len(ccAddrs[1]) :
            i # j => ccAddrs[1][i].Addr # ccAddrs[1][j].Addr

\* C17: no panic leaves event handling uncaught: whatever the handler is
\* given, the process goes on.
C17_NoPanicLeavesTheHandler == ~crashed

\* C23: Build returns an error exactly for a target without a service, and
\* then nothing has been created: no resolver, no handler that runs, no
\* goroutine, nothing published.
C23_BuildRejectsTargetWithoutService ==
    /\ buildRet # "none" => (buildRet = "error" <=> asked.service = <<>>)
    /\ buildRet = "error" =>
          /\ bg = "exited"
          /\ wg = 0
          /\ kHandler = "idle"
          /\ kLast = <<>>
          /\ ccAddrs = <<>>
          /\ closePc = "idle"

\* Build has returned the error for a target that has a port and no
\* service.
C23_Witness == buildRet = "error" /\ asked.port # <<>>

\* A decimal number: digits, and at least one.
OnlyDigits(s) == s # <<>> /\ \A i \in 1..Len(s) : s[i] \in Range(Digits)

\* C24: the resolver's target has useFirstPort alone for an empty port,
\* neither flag for a decimal port, resolveByPortName alone for any other
\* port, and never both flags.
C24_FlagsFollowThePort ==
    buildRet = "resolver" =>
        /\ kTarget.port = <<>> => (kTarget.useFirstPort /\ ~kTarget.resolveByPortName)
        /\ OnlyDigits(kTarget.port) =>
              (~kTarget.useFirstPort /\ ~kTarget.resolveByPortName)
        /\ (kTarget.port # <<>> /\ ~OnlyDigits(kTarget.port)) =>
              (kTarget.resolveByPortName /\ ~kTarget.useFirstPort)
        /\ ~(kTarget.useFirstPort /\ kTarget.resolveByPortName)

\* Resolvers were built for a target with a port name.
C24_Witness == buildRet = "resolver" /\ kTarget.resolveByPortName /\ kExists

C26_NamespaceIsNeverEmpty ==
    buildRet = "resolver" => kTarget.serviceNamespace # <<>>

C28_GaugesFollowThePublish ==
    (kLast # <<>> /\ kLast[1].finished /\ kLast[1].published) =>
        /\ gaugeEndpoints = Len(kArg[1].Subsets)
        /\ gaugeAddresses = Len(ccAddrs[1])

\* The handler has published three addresses from two subsets.
C28_Witness ==
    /\ kLast # <<>>
    /\ kLast[1].finished
    /\ kLast[1].published
    /\ gaugeEndpoints = 2
    /\ gaugeAddresses = 3

\* C29: as long as the handler has been given no event, the consumer has
\* been given nothing.
C29_NothingBeforeTheFirstEvent == kLast = <<>> => ccAddrs = <<>>

\* A resolver was built, ResolveNow and Close were called, and still no
\* event has come.
C29_Witness ==
    /\ buildRet = "resolver"
    /\ kLast = <<>>
    /\ resolveNows > 0
    /\ closePc = "returned"

\* C36: the handling of a deletion does not panic, and when it has finished
\* both gauges are 0.
C36_DeletionCompletes ==
    (kLast # <<>> /\ kLast[1].type = Deleted) =>
        /\ ~crashed
        /\ kLast[1].finished => (gaugeEndpoints = 0 /\ gaugeAddresses = 0)

====
